---- MODULE Spec2Model ----
(***************************************************************************)
(* A model of toposcope's Linux collector                                  *)
(* (src/src/toposcope/collect/linux.py).                                   *)
(*                                                                         *)
(* collect_linux_hardware_graph is one synchronous function.  The model    *)
(* follows its control flow: pc is the program point, one action per       *)
(* stage (availability check, tool run, parse, bus node) and one action    *)
(* per loop iteration (one record turned into a node and its edge, or one  *)
(* vendor-tool record merged into a PCI node).  The environment (which     *)
(* tools are on the search path, what text a tool prints) is an input of   *)
(* the stage that asks for it.  Tool texts are values with the structure   *)
(* the parsers look for (lines, stanzas, JSON documents); the parsers are  *)
(* operators computed as the code computes them.  An exception that        *)
(* leaves collect_linux_hardware_graph ends the run at pc = "raised".      *)
(***************************************************************************)
EXTENDS Integers, Sequences, FiniteSets, TLC

VARIABLES
    pc,                 \* program point inside collect_linux_hardware_graph
    idx,                \* iterations of the current loop already executed
    nodes,              \* nodes: List[Node]
    edges,              \* edges: List[Edge]
    parsed,             \* the lists the loops iterate over (cpu_nodes, vmm, ...)
    created_pci_nodes,  \* created_pci_nodes: key -> position of the node in nodes
    vv_links,           \* vv_links: slot -> link properties
    found,              \* tools _which has reported present
    missing,            \* tools _which has reported absent
    attempted           \* stages whose body has been entered

vars == <<pc, idx, nodes, edges, parsed, created_pci_nodes, vv_links,
          found, missing, attempted>>

(***************************************************************************)
(* Bounds of the environment.                                              *)
(***************************************************************************)
\* records (lines, stanzas, JSON items, sysfs directories) the tools print
\* in one run, all tools together
MaxRecords == 2
\* tools missing from the search path in one run
MaxAbsent == 2
\* records the vendor tools (nvidia-smi, rocm-smi) print in one run, both
\* together
MaxReports == 1

(***************************************************************************)
(* Strings.                                                                *)
(***************************************************************************)
UpperChars == "ABCDEFGHIJKLMNOPQRSTUVWXYZ"
LowerChars == "abcdefghijklmnopqrstuvwxyz"
Digits == {"0", "1", "2", "3", "4", "5", "6", "7", "8", "9"}
HexDigits == Digits \cup {"a", "b", "c", "d", "e", "f", "A", "B", "C", "D", "E", "F"}
OctDigits == {"0", "1", "2", "3", "4", "5", "6", "7"}

CharAt(s, i) == SubSeq(s, i, i)

\* str.lower() of one character
LowerChar(c) ==
    IF \E i \in 1..26 : CharAt(UpperChars, i) = c
    THEN CharAt(LowerChars, CHOOSE i \in 1..26 : CharAt(UpperChars, i) = c)
    ELSE c

RECURSIVE Lower(_)
\* str.lower()
Lower(s) == IF Len(s) = 0 THEN "" ELSE LowerChar(CharAt(s, 1)) \o Lower(SubSeq(s, 2, Len(s)))

\* `t in s` for strings
Contains(s, t) == \E i \in 1..(Len(s) - Len(t) + 1) : SubSeq(s, i, i + Len(t) - 1) = t

\* s.startswith(t)
StartsWith(s, t) == Len(s) >= Len(t) /\ SubSeq(s, 1, Len(t)) = t

\* s.split(sep, 1)[0] for a one-character separator
SplitFirst(s, sep) ==
    IF \E i \in 1..Len(s) : CharAt(s, i) = sep
    THEN LET i == CHOOSE k \in 1..Len(s) :
                    CharAt(s, k) = sep /\ \A j \in 1..(k - 1) : CharAt(s, j) # sep
         IN SubSeq(s, 1, i - 1)
    ELSE s

\* the text matched by [0-9a-fA-F]{2}:[0-9a-fA-F]{2}\.[0-7] at position i of s
IsBdfAt(s, i) ==
    /\ i >= 1
    /\ i + 6 <= Len(s)
    /\ CharAt(s, i) \in HexDigits
    /\ CharAt(s, i + 1) \in HexDigits
    /\ CharAt(s, i + 2) = ":"
    /\ CharAt(s, i + 3) \in HexDigits
    /\ CharAt(s, i + 4) \in HexDigits
    /\ CharAt(s, i + 5) = "."
    /\ CharAt(s, i + 6) \in OctDigits

\* re.search(r"([0-9a-fA-F]{2}:[0-9a-fA-F]{2}\.[0-7])$", s): group 1, or "" when
\* there is no match
TailMatch(s) == IF IsBdfAt(s, Len(s) - 6) THEN SubSeq(s, Len(s) - 6, Len(s)) ELSE ""

\* the text matched by [0-9a-fA-F]{4}: followed by the pattern above
IsFullAt(s, i) ==
    /\ i >= 1
    /\ i + 11 <= Len(s)
    /\ \A k \in 0..3 : CharAt(s, i + k) \in HexDigits
    /\ CharAt(s, i + 4) = ":"
    /\ IsBdfAt(s, i + 5)

\* re.search(r"([0-9a-fA-F]{4}:[0-9a-fA-F]{2}:[0-9a-fA-F]{2}\.[0-7])", s):
\* group 1 of the leftmost match, or ""
FullMatch(s) ==
    IF \E i \in 1..Len(s) : IsFullAt(s, i)
    THEN LET i == CHOOSE k \in 1..Len(s) :
                    IsFullAt(s, k) /\ \A j \in 1..(k - 1) : ~IsFullAt(s, j)
         IN SubSeq(s, i, i + 11)
    ELSE ""

(***************************************************************************)
(* The graph model (model.py).                                             *)
(***************************************************************************)
NoProps == [k \in {} |-> ""]

\* {k: v} if v else {}
Opt(k, v) == IF v # "" THEN (k :> v) ELSE NoProps

Node(id, kind, label, properties) ==
    [id |-> id, kind |-> kind, label |-> label, properties |-> properties]

\* an edge literal whose id names its target only
TargetEdge(source, target, label) ==
    [id |-> "e:" \o target, source |-> source, target |-> target,
     kind |-> "contains", label |-> label]

\* the edge literal every stage appends
ContainsEdge(source, target, label) ==
    [id |-> "e:" \o source \o "->" \o target, source |-> source, target |-> target,
     kind |-> "contains", label |-> label]

RootNode == Node("root", "system", "host", [os |-> "Linux"])

(***************************************************************************)
(* Sequences.                                                              *)
(***************************************************************************)
SeqsUpTo(S, n) == UNION {[1..k -> S] : k \in 0..n}

\* the largest of a non-empty set of integers
Max(S) == CHOOSE x \in S : \A y \in S : y <= x

\* the smallest of a non-empty set of integers
Min(S) == CHOOSE x \in S : \A y \in S : x <= y

\* dict.get(k, default)
Get(d, k, default) == IF k \in DOMAIN d THEN d[k] ELSE default

(***************************************************************************)
(* Numbers.  A float with one decimal is kept as its number of tenths;     *)
(* None is -1.                                                             *)
(***************************************************************************)
None == -1

\* n / d rounded to the nearest integer, ties to even (round(), "%.1f")
RoundDiv(n, d) ==
    LET q == n \div d
        r == n % d
    IN IF 2 * r < d THEN q
       ELSE IF 2 * r > d THEN q + 1
       ELSE IF q % 2 = 0 THEN q ELSE q + 1

IsDigits(s) == Len(s) > 0 /\ \A i \in 1..Len(s) : CharAt(s, i) \in Digits

DigitVal(c) == CHOOSE v \in 0..9 : ToString(v) = c

RECURSIVE ToNat(_)
\* int(s) for a string of digits
ToNat(s) ==
    IF Len(s) = 0 THEN 0
    ELSE 10 * ToNat(SubSeq(s, 1, Len(s) - 1)) + DigitVal(CharAt(s, Len(s)))

\* f"{x:.1f}" of a number of tenths
Fmt1(t) == ToString(t \div 10) \o "." \o ToString(t % 10)

\* float(s) in tenths for the strings the model meets ("16", "16.0"); None
\* stands for the ValueError of a non-numeric string
FloatTenths(s) ==
    IF IsDigits(s) THEN 10 * ToNat(s)
    ELSE IF /\ Len(s) >= 3
            /\ CharAt(s, Len(s) - 1) = "."
            /\ IsDigits(SubSeq(s, 1, Len(s) - 2))
            /\ CharAt(s, Len(s)) \in Digits
         THEN 10 * ToNat(SubSeq(s, 1, Len(s) - 2)) + DigitVal(CharAt(s, Len(s)))
         ELSE None

\* the end of the run of digits of s that starts at i
DigitRunEnd(s, i) == Max({j \in i..Len(s) : IsDigits(SubSeq(s, i, j))})

\* \s*<unit> matches s right after position j (unit in lower case, two letters)
UnitAfter(s, j, unit) ==
    \E k \in (j + 1)..(Len(s) - 1) :
        /\ \A w \in (j + 1)..(k - 1) : CharAt(s, w) = " "
        /\ Lower(SubSeq(s, k, k + 1)) = unit

\* re.search(r"(\d+)\s*<unit>", s, re.IGNORECASE): group 1, or "" without match
NumberBeforeUnit(s, unit) ==
    LET starts == {i \in 1..Len(s) :
                      CharAt(s, i) \in Digits /\ UnitAfter(s, DigitRunEnd(s, i), unit)}
    IN IF starts = {} THEN ""
       ELSE SubSeq(s, Min(starts), DigitRunEnd(s, Min(starts)))

(***************************************************************************)
(* Availability check and search path (_which).                            *)
(***************************************************************************)
Tools == {"lscpu", "dmidecode", "lspci", "nvidia-smi", "rocm-smi", "lsusb",
          "nvme", "lsblk", "ip", "ethtool"}

\* _which(t) may return a, given the answers already seen in this run
CanAnswer(t, a, f, m) ==
    /\ t \in f => a
    /\ t \in m => ~a
    /\ ~a => Cardinality(m \cup {t}) <= MaxAbsent

FoundAfter(t, a, f) == IF a THEN f \cup {t} ELSE f
MissingAfter(t, a, m) == IF a THEN m ELSE m \cup {t}

(***************************************************************************)
(* Loops of the assembler.                                                 *)
(***************************************************************************)
Loops == {"cpu", "numa", "dimm", "pci", "nvidia", "rocm", "usb", "nvme", "lsblk", "net"}

cpu_nodes == parsed["cpu"]
numa_nodes == parsed["numa"]
dimm_nodes == parsed["dimm"]
vmm == parsed["pci"]
usb_nodes == parsed["usb"]
nvme_nodes == parsed["nvme"]
lsblk_nodes == parsed["lsblk"]
ifaces == parsed["net"]

\* records the tools have printed so far in this run
Used == Len(parsed["numa"]) + Len(parsed["dimm"]) + Len(parsed["pci"])
        + Cardinality(DOMAIN vv_links) + Len(parsed["usb"])
        + Len(parsed["nvme"]) + Len(parsed["lsblk"]) + Len(parsed["net"])

\* records the tools may still print
Room == IF Used >= MaxRecords THEN 0 ELSE MaxRecords - Used

\* records the vendor tools may still print
ReportRoom ==
    LET reports == Len(parsed["nvidia"]) + Len(parsed["rocm"])
    IN IF reports >= MaxReports THEN 0 ELSE MaxReports - reports

\* the program point after a stage that leaves recs to loop over
Enter(loop, recs, next) == IF recs = <<>> THEN next ELSE loop

\* an iteration that puts the node and the edge at the front of the lists
InsertStep(loop, node, edge, next) ==
    /\ nodes' = <<node>> \o nodes
    /\ edges' = <<edge>> \o edges
    /\ idx' = IF idx + 1 = Len(parsed[loop]) THEN 0 ELSE idx + 1
    /\ pc' = IF idx + 1 = Len(parsed[loop]) THEN next ELSE pc

\* one iteration of a `for n in ...: nodes.append(...); edges.append(...)` loop
AppendStep(loop, node, edge, next) ==
    /\ nodes' = Append(nodes, node)
    /\ edges' = Append(edges, edge)
    /\ idx' = IF idx + 1 = Len(parsed[loop]) THEN 0 ELSE idx + 1
    /\ pc' = IF idx + 1 = Len(parsed[loop]) THEN next ELSE pc

(***************************************************************************)
(* CPU (lscpu -J, dmidecode -t processor).                                 *)
(***************************************************************************)
\* `lscpu -J` texts: empty, not JSON, JSON without an "lscpu" key, JSON whose
\* "lscpu" value cannot be walked, JSON with an empty field list
LscpuOutputs ==
    {[form |-> "empty", has_lscpu |-> FALSE, walkable |-> FALSE],
     [form |-> "garbage", has_lscpu |-> FALSE, walkable |-> FALSE],
     [form |-> "json", has_lscpu |-> FALSE, walkable |-> FALSE],
     [form |-> "json", has_lscpu |-> TRUE, walkable |-> FALSE],
     [form |-> "json", has_lscpu |-> TRUE, walkable |-> TRUE]}

\* `dmidecode -t processor` texts, as lines "<key>: <mhz> MHz"
DmiProcOutputs ==
    {<<>>,
     <<[key |-> "Max Speed", mhz |-> "3000"]>>}

\* the text reaches the dmidecode lookup of _parse_lscpu_json
ReachesDmiLookup(out) == out.form = "json" /\ out.has_lscpu /\ out.walkable

RECURSIVE LastSpeed(_, _)
\* the value of the last line of lines with this key, "" for None
LastSpeed(lines, key) ==
    IF lines = <<>> THEN ""
    ELSE IF lines[Len(lines)].key = key THEN lines[Len(lines)].mhz
         ELSE LastSpeed(SubSeq(lines, 1, Len(lines) - 1), key)

RECURSIVE ScanUntilBoth(_, _)
\* the prefix of lines the loop reads before `if cur and mx: break`
ScanUntilBoth(lines, n) ==
    IF n >= Len(lines) THEN lines
    ELSE IF LastSpeed(SubSeq(lines, 1, n), "Current Speed") # ""
            /\ LastSpeed(SubSeq(lines, 1, n), "Max Speed") # ""
         THEN SubSeq(lines, 1, n)
         ELSE ScanUntilBoth(lines, n + 1)

\* (current_mhz, max_mhz), "" for None
_parse_dmidecode_processor(output) ==
    LET read == ScanUntilBoth(output, 0)
    IN <<LastSpeed(read, "Current Speed"), LastSpeed(read, "Max Speed")>>

\* dmi is the answer of _which("dmidecode"), proc the text of the processor query
_parse_lscpu_json(output, dmi, proc) ==
    IF ~ReachesDmiLookup(output) THEN <<>>
    ELSE LET speeds == _parse_dmidecode_processor(proc)
             base_mhz == IF ~dmi THEN ""
                         ELSE IF speeds[2] # "" THEN speeds[2] ELSE speeds[1]
         IN <<Node("cpu:0", "cpu", "CPU",
                   [sockets |-> "1", cores_per_socket |-> "?", threads_per_core |-> "?"]
                   @@ Opt("base_mhz", base_mhz))>>

CpuSkip ==
    /\ pc = "cpu"
    /\ CanAnswer("lscpu", FALSE, found, missing)
    /\ missing' = missing \cup {"lscpu"}
    /\ pc' = "memory"
    /\ UNCHANGED <<idx, nodes, edges, parsed, created_pci_nodes, vv_links, found, attempted>>

CpuStage ==
    /\ pc = "cpu"
    /\ CanAnswer("lscpu", TRUE, found, missing)
    /\ \E out \in LscpuOutputs, dmi \in BOOLEAN, proc \in DmiProcOutputs :
        /\ IF ReachesDmiLookup(out)
           THEN /\ CanAnswer("dmidecode", dmi, found \cup {"lscpu"}, missing)
                /\ ~dmi => proc = <<>>
                /\ found' = FoundAfter("dmidecode", dmi, found \cup {"lscpu"})
                /\ missing' = MissingAfter("dmidecode", dmi, missing)
           ELSE /\ ~dmi /\ proc = <<>>
                /\ found' = found \cup {"lscpu"}
                /\ missing' = missing
        /\ parsed' = [parsed EXCEPT !["cpu"] = _parse_lscpu_json(out, dmi, proc)]
        /\ pc' = Enter("cpu_loop", parsed'["cpu"], "memory")
    /\ attempted' = attempted \cup {"lscpu"}
    /\ UNCHANGED <<idx, nodes, edges, created_pci_nodes, vv_links>>

CpuLoop ==
    /\ pc = "cpu_loop"
    /\ LET n == cpu_nodes[idx + 1]
       IN AppendStep("cpu", n, ContainsEdge(RootNode.id, n.id, "contains"), "numa")
    /\ UNCHANGED <<parsed, created_pci_nodes, vv_links, found, missing, attempted>>

(***************************************************************************)
(* NUMA (/sys/devices/system/node).                                        *)
(***************************************************************************)
\* the names a listing of the sysfs directory can hold, in sorted() order
SysfsNames == <<"node0", "node1", "online">>

\* the text of every cpulist file
CpuList == "0-3"

\* listing is the set of names in the directory (empty when it does not exist);
\* the per-node meminfo file is unreadable
_collect_numa_nodes(listing) ==
    LET sorted == SelectSeq(SysfsNames, LAMBDA name : name \in listing)
        kept == SelectSeq(sorted, LAMBDA name : StartsWith(name, "node"))
    IN [i \in 1..Len(kept) |->
           LET suffix == SubSeq(kept[i], 5, Len(kept[i]))
           IN Node("numa:" \o suffix, "numa-node", "NUMA " \o suffix, [cpus |-> CpuList])]

NumaStage ==
    /\ pc = "numa"
    /\ \E listing \in SUBSET {SysfsNames[i] : i \in 1..Len(SysfsNames)} :
        /\ Cardinality(listing) <= Room
        /\ parsed' = [parsed EXCEPT !["numa"] = _collect_numa_nodes(listing)]
        /\ pc' = Enter("numa_loop", parsed'["numa"], "memory")
    /\ attempted' = attempted \cup {"numa"}
    /\ UNCHANGED <<idx, nodes, edges, created_pci_nodes, vv_links, found, missing>>

\* a NUMA edge whose source is the id of a CPU bus node, which no stage creates
NumaParentBus(cpus) == "bus:cpu"

\* the source of the NUMA edges: the id of the first CPU node
NumaParent(cpus) == cpus[1].id

NumaLoop ==
    /\ pc = "numa_loop"
    /\ LET nn == numa_nodes[idx + 1]
       IN AppendStep("numa", nn, ContainsEdge(NumaParent(cpu_nodes), nn.id, "numa"), "memory")
    /\ UNCHANGED <<parsed, created_pci_nodes, vv_links, found, missing, attempted>>

(***************************************************************************)
(* Memory summary and DIMMs (dmidecode -t memory, /proc/meminfo).          *)
(***************************************************************************)
\* stanzas of `dmidecode -t memory`: the header line and the "key: value" lines
DimmStanzas ==
    {[kind |-> "Physical Memory Array", fields |-> [Location |-> "System Board"]],
     [kind |-> "Memory Device", fields |-> [Size |-> "No Module Installed", Locator |-> "A1"]],
     [kind |-> "Memory Device",
      fields |-> ("Size" :> "16 GB" @@ "Locator" :> "A1"
                  @@ "Configured Memory Speed" :> "Unknown" @@ "Speed" :> "3200 MT/s")],
     [kind |-> "Memory Device",
      fields |-> [Size |-> "8192 MB", Locator |-> "B1", Speed |-> "2666 MT/s"]],
     [kind |-> "Memory Device", fields |-> [Size |-> "Unknown", Locator |-> "C1"]]}

\* `cat /proc/meminfo` texts, as lines "<key> <value> kB"
MeminfoOutputs ==
    {<<>>,
     <<[key |-> "MemTotal:", value |-> "16777216"]>>}

\* a or b, for strings
Or(a, b) == IF a # "" THEN a ELSE b

SpeedPlaceholders == {"unknown", "unconfigured", "n/a"}

\* the node of one "Memory Device" stanza; idx is the number of nodes built so far
DimmNode(dev, i) ==
    LET size == Get(dev, "Size", "")
        locator == Or(Get(dev, "Locator", ""),
                      Or(Get(dev, "Bank Locator", ""), "DIMM-" \o ToString(i)))
        dtype == Get(dev, "Type", "?")
        picked == Or(Get(dev, "Configured Memory Speed", ""),
                     Or(Get(dev, "Configured Clock Speed", ""),
                        Or(Get(dev, "Speed", ""), Get(dev, "Maximum Speed", ""))))
        speed == IF Lower(picked) \in SpeedPlaceholders THEN "" ELSE picked
        m_mb == NumberBeforeUnit(size, "mb")
        m_gb == NumberBeforeUnit(size, "gb")
        size_gb == IF m_gb # "" THEN 10 * ToNat(m_gb)
                   ELSE IF m_mb # "" THEN RoundDiv(10 * ToNat(m_mb), 1024)
                   ELSE None
    IN Node("dimm:" \o locator, "dimm", "DIMM " \o locator,
            [slot |-> locator,
             size_gb |-> IF size_gb # None THEN Fmt1(size_gb) ELSE size,
             type |-> dtype,
             manufacturer |-> Get(dev, "Manufacturer", ""),
             part_number |-> Get(dev, "Part Number", ""),
             serial |-> Get(dev, "Serial Number", "")]
            @@ Opt("speed", speed))

\* the stanza is skipped: no size, or an empty slot
DimmAbsent(dev) ==
    LET size == Get(dev, "Size", "")
    IN size = "" \/ StartsWith(Lower(size), "no module")

RECURSIVE DimmNodesFrom(_, _)
DimmNodesFrom(devices, i) ==
    IF devices = <<>> THEN <<>>
    ELSE IF DimmAbsent(Head(devices)) THEN DimmNodesFrom(Tail(devices), i)
         ELSE <<DimmNode(Head(devices), i)>> \o DimmNodesFrom(Tail(devices), i + 1)

_parse_dmidecode_memory(output) ==
    LET devices == SelectSeq(output, LAMBDA st : st.kind = "Memory Device")
    IN DimmNodesFrom([i \in 1..Len(devices) |-> devices[i].fields], 0)

RECURSIVE _parse_meminfo_total_kb(_)
\* the first "MemTotal:" line with a number, None without one
_parse_meminfo_total_kb(output) ==
    IF output = <<>> THEN None
    ELSE IF Head(output).key = "MemTotal:" /\ IsDigits(Head(output).value)
         THEN ToNat(Head(output).value)
         ELSE _parse_meminfo_total_kb(Tail(output))

RECURSIVE SumTenths(_)
SumTenths(ns) ==
    IF ns = <<>> THEN 0
    ELSE FloatTenths(Head(ns).properties["size_gb"]) + SumTenths(Tail(ns))

\* sum(float(size_gb) ...) over the DIMM nodes; None when there is no DIMM or a
\* size is not a number
DimmTotal(ns) ==
    LET sized == SelectSeq(ns, LAMBDA n : n.properties["size_gb"] # "")
    IN IF ns = <<>> THEN None
       ELSE IF \E i \in 1..Len(sized) : FloatTenths(sized[i].properties["size_gb"]) = None
            THEN None
            ELSE SumTenths(sized)

\* the total after the /proc/meminfo fallback
MeminfoTotal(meminfo) ==
    LET total_kb == _parse_meminfo_total_kb(meminfo)
    IN IF total_kb # None /\ total_kb # 0 THEN RoundDiv(total_kb * 10, 1024 * 1024)
       ELSE None

\* a total that prefers /proc/meminfo to the DIMM sum
TotalGbMeminfoFirst(dimms, meminfo) ==
    IF MeminfoTotal(meminfo) # None THEN MeminfoTotal(meminfo) ELSE DimmTotal(dimms)

\* total_gb: the DIMM sum, or the /proc/meminfo total when there is no sum
TotalGb(dimms, meminfo) ==
    IF DimmTotal(dimms) # None THEN DimmTotal(dimms) ELSE MeminfoTotal(meminfo)

MemRoot(total_gb) ==
    Node("bus:memory", "memory", "Memory",
         [total_gb |-> IF total_gb # None THEN Fmt1(total_gb) ELSE ""])

MemoryStage ==
    /\ pc = "memory"
    /\ \E dmi \in BOOLEAN, out \in SeqsUpTo(DimmStanzas, Room) :
        /\ CanAnswer("dmidecode", dmi, found, missing)
        /\ ~dmi => out = <<>>
        /\ found' = FoundAfter("dmidecode", dmi, found)
        /\ missing' = MissingAfter("dmidecode", dmi, missing)
        /\ attempted' = IF dmi THEN attempted \cup {"dmidecode"} ELSE attempted
        /\ parsed' = [parsed EXCEPT !["dimm"] = IF dmi THEN _parse_dmidecode_memory(out)
                                                ELSE <<>>]
        /\ \E meminfo \in MeminfoOutputs :
            /\ DimmTotal(parsed'["dimm"]) # None => meminfo = <<>>
            /\ nodes' = Append(nodes, MemRoot(TotalGb(parsed'["dimm"], meminfo)))
        /\ edges' = Append(edges, ContainsEdge(RootNode.id, "bus:memory", "contains"))
        /\ pc' = Enter("dimm_loop", parsed'["dimm"], "pci")
    /\ UNCHANGED <<idx, created_pci_nodes, vv_links>>

DimmLoop ==
    /\ pc = "dimm_loop"
    /\ LET n == dimm_nodes[idx + 1]
       IN AppendStep("dimm", n, ContainsEdge("bus:memory", n.id, "dimm"), "pci")
    /\ UNCHANGED <<parsed, created_pci_nodes, vv_links, found, missing, attempted>>

(***************************************************************************)
(* PCI devices (lspci -Dvmmnnk, lspci -vv).                                *)
(***************************************************************************)
\* lines of `lspci -mm`: ok when the line has an address and three quoted fields
LspciMmLines ==
    {[ok |-> TRUE, address |-> "00:00.0", cls |-> "Host bridge",
      vendor |-> "Intel Corporation", device |-> "440FX - 82441FX PMC [Natoma]"],
     [ok |-> FALSE, address |-> "", cls |-> "", vendor |-> "", device |-> ""]}

_parse_lspci_mm(output) ==
    LET matched == SelectSeq(output, LAMBDA line : line.ok)
    IN [i \in 1..Len(matched) |->
           Node("pci:" \o matched[i].address, "pci-device",
                matched[i].vendor \o " " \o matched[i].device,
                [class |-> matched[i].cls, address |-> matched[i].address])]

\* stanzas of `lspci -Dvmmnnk`, each a map of its "Key: value" lines
PciStanzas ==
    {[Slot |-> "0000:65:00.0", Class |-> "VGA compatible controller [0300]",
      Vendor |-> "NVIDIA Corporation [10de]", Device |-> "GA102 [2204]"],
     [Slot |-> "0000:65:00.0", Class |-> "Host bridge [0600]"],
     [Slot |-> "0001:65:00.0", Class |-> "ISA bridge [0601]"],
     [Class |-> "Host bridge [0600]"]}

\* texts of `lspci -vv`: address-prefixed lines and LnkSta lines
VvOutputs ==
    {<<>>,
     <<[slot |-> "65:00.0", lnksta |-> FALSE, speed |-> "", width |-> ""],
       [slot |-> "", lnksta |-> TRUE, speed |-> "8", width |-> "x16"]>>}

\* the text matched by \[[0-9a-fA-F]{4}\] at position i of s
IsBracketIdAt(s, i) ==
    /\ i + 5 <= Len(s)
    /\ CharAt(s, i) = "["
    /\ \A k \in 1..4 : CharAt(s, i + k) \in HexDigits
    /\ CharAt(s, i + 5) = "]"

\* re.search(r"\[([0-9a-fA-F]{4})\]", s): group 1 of the leftmost match, or ""
BracketId(s) ==
    IF \E i \in 1..Len(s) : IsBracketIdAt(s, i)
    THEN LET i == Min({k \in 1..Len(s) : IsBracketIdAt(s, k)})
         IN SubSeq(s, i + 1, i + 4)
    ELSE ""

\* the post-processing of one stanza: numeric ids out of the bracket notation
WithIds(dev) ==
    LET m_v == BracketId(Get(dev, "Vendor", ""))
        m_d == BracketId(Get(dev, "Device", ""))
        v == IF m_v # "" /\ Get(dev, "VendorId", "") = ""
             THEN ("VendorId" :> Lower(m_v)) ELSE NoProps
        d == IF m_d # "" /\ Get(dev, "DeviceId", "") = ""
             THEN ("DeviceId" :> Lower(m_d)) ELSE NoProps
    IN v @@ d @@ dev

_parse_lspci_vmm(output) ==
    LET devices == SelectSeq(output, LAMBDA st : Get(st, "Slot", "") # "")
    IN [i \in 1..Len(devices) |-> WithIds(devices[i])]

RECURSIVE LinksFrom(_, _, _)
\* the scan of the lines with the current slot cur ("" for None) and the map so far
LinksFrom(lines, cur, links) ==
    IF lines = <<>> THEN links
    ELSE LET line == Head(lines)
         IN IF line.slot # "" THEN LinksFrom(Tail(lines), line.slot, links)
            ELSE IF cur = "" \/ ~line.lnksta THEN LinksFrom(Tail(lines), cur, links)
            ELSE LET old == Get(links, cur, NoProps)
                     new == Opt("pcie_width", line.width)
                            @@ Opt("pcie_speed", IF line.speed # "" THEN line.speed \o "GT/s"
                                                 ELSE "")
                            @@ old
                 IN LinksFrom(Tail(lines), cur, (cur :> new) @@ links)

_parse_lspci_vv_links(output) == LinksFrom(output, "", NoProps)

\* s.split(sep)[0] for a separator of two characters
SplitFirst2(s, sep) ==
    LET hits == {i \in 1..(Len(s) - 1) : SubSeq(s, i, i + 1) = sep}
    IN IF hits = {} THEN s ELSE SubSeq(s, 1, Min(hits) - 1)

RECURSIVE Strip(_)
\* str.strip() for blanks
Strip(s) ==
    IF Len(s) = 0 THEN s
    ELSE IF CharAt(s, 1) = " " THEN Strip(SubSeq(s, 2, Len(s)))
    ELSE IF CharAt(s, Len(s)) = " " THEN Strip(SubSeq(s, 1, Len(s) - 1))
    ELSE s

GpuClassKeywords == {"vga", "3d controller", "display controller",
                     "processing accelerators", "accelerator", "co-processor"}

\* a classification that compares the class text as printed
PciKindCaseSensitive(cls) ==
    IF \E k \in GpuClassKeywords : Contains(cls, k) THEN "gpu-device" ELSE "pci-device"

\* the kind a PCI record gets when its node is built
PciKind(cls) ==
    IF \E k \in GpuClassKeywords : Contains(Lower(cls), k) THEN "gpu-device" ELSE "pci-device"

\* the slot a stanza is filed under
PciSlot(dev) == Or(Get(dev, "Slot", ""), "?")

\* the node of one lspci stanza
PciNode(dev, links) ==
    LET slot == PciSlot(dev)
        cls == Or(Get(dev, "Class", ""), Get(dev, "ClassName", ""))
        vendor == SplitFirst2(Get(dev, "Vendor", ""), " [")
        device == SplitFirst2(Get(dev, "Device", ""), " [")
        link == Get(links, slot, NoProps)
        props == link
                 @@ Opt("vendor_id", Get(dev, "VendorId", ""))
                 @@ Opt("device_id", Get(dev, "DeviceId", ""))
                 @@ [class |-> cls, address |-> slot]
    IN Node("pci:" \o slot, PciKind(cls), Or(Strip(vendor \o " " \o device), slot), props)

\* an index that files the node appended before this one
FiledPrevious(created, slot, pos) ==
    LET m_tail == TailMatch(slot)
    IN (IF m_tail # "" THEN (m_tail :> pos - 1) ELSE NoProps) @@ (slot :> pos - 1) @@ created

\* created_pci_nodes after the node at position pos was filed under its slot and
\* under the tail of its slot
Filed(created, slot, pos) ==
    LET m_tail == TailMatch(slot)
    IN (IF m_tail # "" THEN (m_tail :> pos) ELSE NoProps) @@ (slot :> pos) @@ created

PciSkip ==
    /\ pc = "pci"
    /\ CanAnswer("lspci", FALSE, found, missing)
    /\ missing' = missing \cup {"lspci"}
    /\ pc' = "usb"
    /\ UNCHANGED <<idx, nodes, edges, parsed, created_pci_nodes, vv_links, found, attempted>>

PciStage ==
    /\ pc = "pci"
    /\ CanAnswer("lspci", TRUE, found, missing)
    /\ found' = found \cup {"lspci"}
    /\ attempted' = attempted \cup {"lspci"}
    /\ \E out \in SeqsUpTo(PciStanzas, Room), vv \in VvOutputs :
        /\ parsed' = [parsed EXCEPT !["pci"] = _parse_lspci_vmm(out)]
        /\ vv_links' = _parse_lspci_vv_links(vv)
        /\ Len(parsed'["pci"]) + Cardinality(DOMAIN vv_links') <= Room
        /\ pc' = Enter("pci_loop", parsed'["pci"], "nvidia")
    /\ nodes' = Append(nodes, Node("bus:pci", "bus", "PCI Bus", NoProps))
    /\ edges' = Append(edges, ContainsEdge(RootNode.id, "bus:pci", "contains"))
    /\ created_pci_nodes' = NoProps
    /\ UNCHANGED <<idx, missing>>

PciLoop ==
    /\ pc = "pci_loop"
    /\ LET dev == vmm[idx + 1]
           node == PciNode(dev, vv_links)
       IN /\ AppendStep("pci", node,
                        ContainsEdge("bus:pci", "pci:" \o PciSlot(dev), "device"), "nvidia")
          /\ created_pci_nodes' = Filed(created_pci_nodes, PciSlot(dev), Len(nodes) + 1)
    /\ UNCHANGED <<parsed, vv_links, found, missing, attempted>>

(***************************************************************************)
(* NVIDIA enrichment (nvidia-smi --query-gpu=... --format=csv).            *)
(***************************************************************************)
\* lines of the nvidia-smi report, each already split at "," and stripped
NvidiaLines ==
    {<<"00000000:65:00.0", "NVIDIA GeForce RTX 3090", "535.54">>,
     <<"00000000:3B:00.0", "NVIDIA A100">>,
     <<"No devices were found">>}

\* parts[i - 1] if len(parts) > i - 1 else ""
Part(parts, i) == IF Len(parts) >= i THEN parts[i] ELSE ""

\* the position in nodes of the node a vendor report's bus id designates, 0 for None:
\* the tail form is looked up before the full form
NvidiaLookup(created, bus_id) ==
    LET m_tail == TailMatch(bus_id)
        m_full == FullMatch(bus_id)
        by_tail == IF m_tail # "" THEN Get(created, m_tail, 0) ELSE 0
    IN IF by_tail # 0 THEN by_tail
       ELSE IF m_full # "" THEN Get(created, m_full, 0) ELSE 0

\* an enrichment pass that resets the kind of the node it matched
DemotedKind == "pci-device"

\* the kind an enrichment pass gives the node it matched
PromotedKind == "gpu-device"

\* a merge that starts from an empty property map
NvidiaMergeFresh(node, parts) ==
    [node EXCEPT !.kind = PromotedKind,
                 !.label = IF Part(parts, 2) # "" THEN Part(parts, 2) ELSE @,
                 !.properties = Opt("driver", Part(parts, 3))]

\* the node after the merge of one nvidia-smi line
NvidiaMerge(node, parts) ==
    LET name == Part(parts, 2)
        p == Opt("utilization_gpu_pct", Part(parts, 8))
             @@ Opt("power_cap_w", Part(parts, 7))
             @@ Opt("power_w", Part(parts, 6))
             @@ Opt("temperature_c", Part(parts, 5))
             @@ Opt("vram_mb", Part(parts, 4))
             @@ Opt("driver", Part(parts, 3))
             @@ node.properties
    IN [node EXCEPT !.kind = PromotedKind,
                    !.label = IF name # "" THEN name ELSE @,
                    !.properties = p]

\* one iteration of a loop over vendor-tool records: node pos (0 for none) is replaced
EnrichStep(loop, pos, merged, next) ==
    /\ nodes' = IF pos = 0 THEN nodes ELSE [nodes EXCEPT ![pos] = merged]
    /\ idx' = IF idx + 1 = Len(parsed[loop]) THEN 0 ELSE idx + 1
    /\ pc' = IF idx + 1 = Len(parsed[loop]) THEN next ELSE pc
    /\ UNCHANGED edges

\* a gate that looks at the tool only
EnrichGateToolOnly(tool, created) == tool

\* `_which(<tool>) and created_pci_nodes`: the gate of both enrichment passes
EnrichGate(tool, created) == tool /\ DOMAIN created # {}

NvidiaStage ==
    /\ pc = "nvidia"
    /\ \E smi \in BOOLEAN, out \in SeqsUpTo(NvidiaLines, ReportRoom) :
        /\ CanAnswer("nvidia-smi", smi, found, missing)
        /\ found' = FoundAfter("nvidia-smi", smi, found)
        /\ missing' = MissingAfter("nvidia-smi", smi, missing)
        /\ IF EnrichGate(smi, created_pci_nodes)
           THEN /\ attempted' = attempted \cup {"nvidia-smi"}
                /\ parsed' = [parsed EXCEPT !["nvidia"] = out]
           ELSE /\ out = <<>>
                /\ UNCHANGED <<attempted, parsed>>
        /\ pc' = Enter("nvidia_loop", parsed'["nvidia"], "rocm")
    /\ UNCHANGED <<idx, nodes, edges, created_pci_nodes, vv_links>>

NvidiaLoop ==
    /\ pc = "nvidia_loop"
    /\ LET parts == parsed["nvidia"][idx + 1]
           pos == IF Len(parts) < 2 THEN 0 ELSE NvidiaLookup(created_pci_nodes, parts[1])
       IN EnrichStep("nvidia", pos, IF pos = 0 THEN RootNode ELSE NvidiaMerge(nodes[pos], parts),
                     "rocm")
    /\ UNCHANGED <<parsed, created_pci_nodes, vv_links, found, missing, attempted>>

(***************************************************************************)
(* AMD enrichment (rocm-smi --showall --json).                             *)
(***************************************************************************)
\* the printable characters (but the double quote, the backslash and the
\* backquote) in code point order
Ascii == " !#$%&'()*+,-./0123456789:;<=>?@ABCDEFGHIJKLMNOPQRSTUVWXYZ[]^_abcdefghijklmnopqrstuvwxyz{|}~"

Code(c) == CHOOSE i \in 1..Len(Ascii) : CharAt(Ascii, i) = c

RECURSIVE StrLess(_, _)
\* a < b for strings
StrLess(a, b) ==
    IF Len(b) = 0 THEN FALSE
    ELSE IF Len(a) = 0 THEN TRUE
    ELSE IF CharAt(a, 1) # CharAt(b, 1) THEN Code(CharAt(a, 1)) < Code(CharAt(b, 1))
    ELSE StrLess(SubSeq(a, 2, Len(a)), SubSeq(b, 2, Len(b)))

RECURSIVE Sorted(_)
\* sorted(S) for a set of strings
Sorted(S) ==
    IF S = {} THEN <<>>
    ELSE LET least == CHOOSE x \in S : \A y \in S \ {x} : StrLess(x, y)
         IN <<least>> \o Sorted(S \ {least})

\* the cards of a rocm-smi report: a value that is not an object, and objects
\* whose nested keys are already joined with "."
RocmCards ==
    {[isdict |-> FALSE, flat |-> NoProps],
     [isdict |-> TRUE, flat |-> ("PCI Bus" :> "0000:65:00.0" @@ "Card series" :> "Radeon RX 6800"
                                 @@ "GPU use (%)" :> "12")],
     [isdict |-> TRUE, flat |-> ("Card series" :> "Radeon RX 6800")]}

\* the value of the first key, in sorted order, that contains every substring;
\* "" for None
find_key(flat, substrs) ==
    LET hits == SelectSeq(Sorted(DOMAIN flat),
                          LAMBDA k : \A sub \in substrs : Contains(Lower(k), sub))
    IN IF hits = <<>> THEN "" ELSE flat[hits[1]]

\* the first run of digits of s, "" without one
FirstNumber(s) ==
    LET starts == {i \in 1..Len(s) : CharAt(s, i) \in Digits}
    IN IF starts = {} THEN "" ELSE SubSeq(s, Min(starts), DigitRunEnd(s, Min(starts)))

\* the record of one card
RocmRecord(flat) ==
    LET bdf == Or(find_key(flat, {"pci bus"}), Or(find_key(flat, {"pcie", "bus"}),
               Or(find_key(flat, {"bdf"}), find_key(flat, {"pci", "bus"}))))
        name == Or(find_key(flat, {"device name"}), Or(find_key(flat, {"card series"}),
                Or(find_key(flat, {"product"}), Or(find_key(flat, {"name"}),
                find_key(flat, {"card model"})))))
        driver == find_key(flat, {"driver version"})
        temp_c == Or(find_key(flat, {"temperature_hotspot", "c"}),
                  Or(find_key(flat, {"temperature (sensor junction)", "c"}),
                  Or(find_key(flat, {"temperature (sensor memory)", "c"}),
                  find_key(flat, {"temperature", "c"}))))
        power_current == Or(find_key(flat, {"current socket graphics package power", "w"}),
                         Or(find_key(flat, {"current_socket_power", "w"}),
                         find_key(flat, {"socket graphics package power", "w"})))
        power_cap == find_key(flat, {"max graphics package power", "w"})
        util_gpu == Or(find_key(flat, {"gpu use", "%"}),
                       find_key(flat, {"average_gfx_activity", "%"}))
        vram_b == Or(find_key(flat, {"vram", "total"}), find_key(flat, {"memory", "total"}))
        num == FirstNumber(vram_b)
        vram_mb == IF num = "" THEN ""
                   ELSE IF ToNat(num) > 1000000000
                        THEN ToString(RoundDiv(ToNat(num), 1024 * 1024))
                        ELSE ToString(RoundDiv(ToNat(num), 1024))
        pcie_width == find_key(flat, {"pcie_link_width", "lanes"})
        pcie_speed_raw == find_key(flat, {"pcie_link_speed", "gt/s"})
        m == FirstNumber(pcie_speed_raw)
        pcie_speed == IF m = "" THEN "" ELSE Fmt1(ToNat(m)) \o "GT/s"
    IN Opt("utilization_gpu_pct", util_gpu)
       @@ Opt("pcie_speed", pcie_speed)
       @@ Opt("pcie_width", IF pcie_width # "" /\ ~StartsWith(pcie_width, "x")
                            THEN "x" \o pcie_width ELSE pcie_width)
       @@ Opt("vram_mb", vram_mb)
       @@ Opt("power_cap_w", power_cap)
       @@ [bdf |-> bdf, name |-> name, driver |-> driver, temperature_c |-> temp_c,
           power_w |-> power_current]

\* texts of rocm-smi: empty, not JSON, or JSON whose top level is an object of
\* cards, a list of cards or a scalar
RocmOutputs(n) ==
    {[form |-> "empty", top |-> "", cards |-> <<>>],
     [form |-> "garbage", top |-> "", cards |-> <<>>],
     [form |-> "json", top |-> "scalar", cards |-> <<>>]}
    \cup [form : {"json"}, top : {"dict", "list"}, cards : SeqsUpTo(RocmCards, n)]

_parse_rocm_smi_json(output) ==
    IF output.form # "json" \/ output.top = "scalar" THEN <<>>
    ELSE LET infos == SelectSeq(output.cards, LAMBDA info : info.isdict)
         IN [i \in 1..Len(infos) |-> RocmRecord(infos[i].flat)]

\* the position of the node a rocm-smi record designates, 0 for none
RocmLookup(created, bdf) ==
    LET slot_key == TailMatch(bdf)
    IN IF slot_key = "" THEN 0
       ELSE IF Get(created, slot_key, 0) # 0 THEN created[slot_key]
       ELSE Get(created, bdf, 0)

RocmMergedKeys == <<"driver", "vram_mb", "temperature_c", "power_w">>

\* the node after the merge of one rocm-smi record
RocmMerge(node, dev) ==
    LET p == [k \in {RocmMergedKeys[i] : i \in 1..Len(RocmMergedKeys)}
                    \cap {k \in DOMAIN dev : dev[k] # ""} |-> dev[k]]
             @@ node.properties
    IN [node EXCEPT !.kind = PromotedKind,
                    !.label = IF Get(dev, "name", "") # "" THEN dev["name"] ELSE @,
                    !.properties = p]

RocmStage ==
    /\ pc = "rocm"
    /\ \E smi \in BOOLEAN, out \in RocmOutputs(ReportRoom) :
        /\ CanAnswer("rocm-smi", smi, found, missing)
        /\ found' = FoundAfter("rocm-smi", smi, found)
        /\ missing' = MissingAfter("rocm-smi", smi, missing)
        /\ IF EnrichGate(smi, created_pci_nodes)
           THEN /\ attempted' = attempted \cup {"rocm-smi"}
                /\ parsed' = [parsed EXCEPT !["rocm"] = _parse_rocm_smi_json(out)]
           ELSE /\ out.form = "empty"
                /\ UNCHANGED <<attempted, parsed>>
        /\ pc' = Enter("rocm_loop", parsed'["rocm"], "usb")
    /\ UNCHANGED <<idx, nodes, edges, created_pci_nodes, vv_links>>

RocmLoop ==
    /\ pc = "rocm_loop"
    /\ LET dev == parsed["rocm"][idx + 1]
           pos == RocmLookup(created_pci_nodes, dev["bdf"])
       IN EnrichStep("rocm", pos, IF pos = 0 THEN RootNode ELSE RocmMerge(nodes[pos], dev), "usb")
    /\ UNCHANGED <<parsed, created_pci_nodes, vv_links, found, missing, attempted>>

(***************************************************************************)
(* USB devices (lsusb).                                                    *)
(***************************************************************************)
\* lines of lsusb: "Bus <bus> Device <dev>: ID <vid>:<pid> <rest>", or a line
\* the pattern does not match
UsbLines ==
    {[ok |-> TRUE, bus |-> "001", dev |-> "002", vid |-> "8087", pid |-> "0024",
      rest |-> "Intel Corp. Integrated Rate Matching Hub"],
     [ok |-> TRUE, bus |-> "001", dev |-> "003", vid |-> "1D6B", pid |-> "0002",
      rest |-> "Linux Foundation 2.0 root hub "],
     [ok |-> FALSE, bus |-> "", dev |-> "", vid |-> "", pid |-> "", rest |-> ""]}

UsbNode(m) ==
    Node("usb:" \o m.bus \o "-" \o m.dev, "usb-device", Strip(m.rest),
         [bus |-> m.bus, device |-> m.dev, vendor_id |-> Lower(m.vid),
          product_id |-> Lower(m.pid)])

_parse_lsusb(output) ==
    LET matched == SelectSeq(output, LAMBDA line : line.ok)
    IN [i \in 1..Len(matched) |-> UsbNode(matched[i])]

\* a skipped stage that still appends its bus node
UsbSkipWithBus ==
    /\ pc = "usb"
    /\ CanAnswer("lsusb", FALSE, found, missing)
    /\ missing' = missing \cup {"lsusb"}
    /\ nodes' = Append(nodes, Node("bus:usb", "bus", "USB Bus", NoProps))
    /\ edges' = Append(edges, ContainsEdge(RootNode.id, "bus:usb", "contains"))
    /\ pc' = "storage"
    /\ UNCHANGED <<idx, parsed, created_pci_nodes, vv_links, found, attempted>>

UsbSkip ==
    /\ pc = "usb"
    /\ CanAnswer("lsusb", FALSE, found, missing)
    /\ missing' = missing \cup {"lsusb"}
    /\ pc' = "storage"
    /\ UNCHANGED <<idx, nodes, edges, parsed, created_pci_nodes, vv_links, found, attempted>>

UsbStage ==
    /\ pc = "usb"
    /\ CanAnswer("lsusb", TRUE, found, missing)
    /\ found' = found \cup {"lsusb"}
    /\ attempted' = attempted \cup {"lsusb"}
    /\ \E out \in SeqsUpTo(UsbLines, Room) :
        /\ parsed' = [parsed EXCEPT !["usb"] = _parse_lsusb(out)]
        /\ pc' = Enter("usb_loop", parsed'["usb"], "storage")
    /\ nodes' = Append(nodes, Node("bus:usb", "bus", "USB Bus", NoProps))
    /\ edges' = Append(edges, ContainsEdge(RootNode.id, "bus:usb", "contains"))
    /\ UNCHANGED <<idx, created_pci_nodes, vv_links, missing>>

UsbLoop ==
    /\ pc = "usb_loop"
    /\ LET n == usb_nodes[idx + 1]
       IN AppendStep("usb", n, ContainsEdge("bus:usb", n.id, "device"), "storage")
    /\ UNCHANGED <<parsed, created_pci_nodes, vv_links, found, missing, attempted>>

(***************************************************************************)
(* Storage (nvme list -o json, lsblk -J).                                  *)
(***************************************************************************)
\* what a parser call gives back: a list, or an exception that leaves it
Returned(ns) == [raised |-> FALSE, nodes |-> ns]
Raised == [raised |-> TRUE, nodes |-> <<>>]

StorageStage ==
    /\ pc = "storage"
    /\ nodes' = Append(nodes, Node("bus:storage", "bus", "Storage", NoProps))
    /\ edges' = Append(edges, ContainsEdge(RootNode.id, "bus:storage", "contains"))
    /\ pc' = "nvme"
    /\ UNCHANGED <<idx, parsed, created_pci_nodes, vv_links, found, missing, attempted>>

\* elements of the device array of `nvme list -o json`: objects (their string
\* members and their numeric members) and a value that is not an object
NvmeItems ==
    {[isdict |-> TRUE, fields |-> [Name |-> "/dev/nvme0n1", ModelNumber |-> "Samsung SSD 980"],
      sizes |-> [PhysicalSize |-> 1073741824]],
     [isdict |-> TRUE, fields |-> NoProps, sizes |-> NoProps],
     [isdict |-> FALSE, fields |-> NoProps, sizes |-> NoProps]}

\* texts of `nvme list -o json`: empty, not JSON, or JSON that is an object with
\* a "Devices" array, a bare array, or anything else
NvmeOutputs(n) ==
    {[form |-> "empty", top |-> "", items |-> <<>>],
     [form |-> "garbage", top |-> "", items |-> <<>>],
     [form |-> "json", top |-> "other", items |-> <<>>]}
    \cup [form : {"json"}, top : {"Devices", "list"}, items : SeqsUpTo(NvmeItems, n)]

NvmeSizeKeys == <<"PhysicalSize", "Size", "TotalSize", "Capacity">>

\* the first positive size among the size keys, None without one
NvmeSizeBytes(sizes) ==
    LET hits == SelectSeq(NvmeSizeKeys, LAMBDA k : Get(sizes, k, 0) > 0)
    IN IF hits = <<>> THEN None ELSE sizes[hits[1]]

\* round(size_bytes / 1024 ** 3, 1) in tenths, for sizes that are multiples of 16
GbTenths(bytes) ==
    10 * (bytes \div (1024 * 1024 * 1024))
    + RoundDiv(10 * ((bytes % (1024 * 1024 * 1024)) \div 16), 64 * 1024 * 1024)

\* the node of one device object; built is the number of nodes built so far
NvmeNode(dev, built) ==
    LET f == dev.fields
        name == Or(Get(f, "Name", ""), Or(Get(f, "DevicePath", ""), Or(Get(f, "Device", ""),
                Or(Get(f, "SubsystemNQN", ""), Get(f, "Address", "")))))
        model == Or(Get(f, "ModelNumber", ""), Or(Get(f, "Model", ""),
                 Or(Get(f, "Model Number", ""), "NVMe")))
        serial == Or(Get(f, "SerialNumber", ""), Get(f, "Serial", ""))
        firmware == Or(Get(f, "Firmware", ""), Get(f, "FirmwareRevision", ""))
        size_bytes == NvmeSizeBytes(dev.sizes)
    IN Node(IF name # "" THEN "nvme:" \o name ELSE "nvme:" \o ToString(built),
            "nvme-device", model,
            [model |-> model, serial |-> serial, firmware |-> firmware]
            @@ (IF size_bytes # None THEN ("size_gb" :> Fmt1(GbTenths(size_bytes)))
                ELSE NoProps))

RECURSIVE NvmeNodesFrom(_, _)
NvmeNodesFrom(devices, built) ==
    IF Len(devices) = built THEN <<>>
    ELSE <<NvmeNode(devices[built + 1], built)>> \o NvmeNodesFrom(devices, built + 1)

_parse_nvme_list_json(output) ==
    IF output.form # "json" \/ output.top = "other" THEN Returned(<<>>)
    ELSE IF \E i \in 1..Len(output.items) : ~output.items[i].isdict THEN Raised
    ELSE Returned(NvmeNodesFrom(output.items, 0))

NvmeSkip ==
    /\ pc = "nvme"
    /\ CanAnswer("nvme", FALSE, found, missing)
    /\ missing' = missing \cup {"nvme"}
    /\ pc' = "lsblk"
    /\ UNCHANGED <<idx, nodes, edges, parsed, created_pci_nodes, vv_links, found, attempted>>

NvmeStage ==
    /\ pc = "nvme"
    /\ CanAnswer("nvme", TRUE, found, missing)
    /\ found' = found \cup {"nvme"}
    /\ attempted' = attempted \cup {"nvme"}
    /\ \E out \in NvmeOutputs(Room) :
        LET result == _parse_nvme_list_json(out)
        IN /\ parsed' = [parsed EXCEPT !["nvme"] = result.nodes]
           /\ pc' = IF result.raised THEN "raised"
                    ELSE Enter("nvme_loop", result.nodes, "lsblk")
    /\ UNCHANGED <<idx, nodes, edges, created_pci_nodes, vv_links, missing>>

NvmeLoop ==
    /\ pc = "nvme_loop"
    /\ LET n == nvme_nodes[idx + 1]
       IN AppendStep("nvme", n, ContainsEdge("bus:storage", n.id, "nvme"), "lsblk")
    /\ UNCHANGED <<parsed, created_pci_nodes, vv_links, found, missing, attempted>>

\* elements of the "blockdevices" array of `lsblk -J`: objects with a type and a
\* name (a string, or another JSON value such as a number) and a value that is
\* not an object
LsblkItems ==
    {[isdict |-> TRUE, type |-> "disk", name |-> "sda", name_is_str |-> TRUE],
     [isdict |-> TRUE, type |-> "disk", name |-> "nvme0n1", name_is_str |-> TRUE],
     [isdict |-> TRUE, type |-> "rom", name |-> "sr0", name_is_str |-> TRUE],
     [isdict |-> TRUE, type |-> "disk", name |-> "8", name_is_str |-> FALSE],
     [isdict |-> FALSE, type |-> "", name |-> "", name_is_str |-> FALSE]}

\* texts of `lsblk -J`: empty, not JSON, or JSON that is an object with a
\* "blockdevices" array, null, or a non-empty array
LsblkOutputs(n) ==
    {[form |-> "empty", top |-> "", items |-> <<>>],
     [form |-> "garbage", top |-> "", items |-> <<>>],
     [form |-> "json", top |-> "null", items |-> <<>>],
     [form |-> "json", top |-> "list", items |-> <<>>]}
    \cup [form : {"json"}, top : {"dict"}, items : SeqsUpTo(LsblkItems, n)]

\* a filter that keeps every disk
LsblkKeptAnyDisk(d) == d.type = "disk"

\* the entry passes the filter: a disk that is not an NVMe namespace
LsblkKept(d) == d.type = "disk" /\ ~StartsWith(d.name, "nvme")

\* the entry makes the parser raise: d.get on a value that is not an object, or
\* name.startswith on a name that is not a string
LsblkRaises(d) == ~d.isdict \/ (d.type = "disk" /\ ~d.name_is_str)

LsblkNode(d) ==
    Node("disk:" \o d.name, "disk-device", "Disk (" \o d.name \o ")", [model |-> "Disk"])

_parse_lsblk_json(output) ==
    IF output.form # "json" \/ output.top = "null" THEN Returned(<<>>)
    ELSE IF output.top = "list" THEN Raised
    ELSE IF \E i \in 1..Len(output.items) : LsblkRaises(output.items[i]) THEN Raised
    ELSE LET kept == SelectSeq(output.items, LsblkKept)
         IN Returned([i \in 1..Len(kept) |-> LsblkNode(kept[i])])

LsblkSkip ==
    /\ pc = "lsblk"
    /\ CanAnswer("lsblk", FALSE, found, missing)
    /\ missing' = missing \cup {"lsblk"}
    /\ pc' = "net"
    /\ UNCHANGED <<idx, nodes, edges, parsed, created_pci_nodes, vv_links, found, attempted>>

LsblkStage ==
    /\ pc = "lsblk"
    /\ CanAnswer("lsblk", TRUE, found, missing)
    /\ found' = found \cup {"lsblk"}
    /\ attempted' = attempted \cup {"lsblk"}
    /\ \E out \in LsblkOutputs(Room) :
        LET result == _parse_lsblk_json(out)
        IN /\ parsed' = [parsed EXCEPT !["lsblk"] = result.nodes]
           /\ pc' = IF result.raised THEN "raised"
                    ELSE Enter("lsblk_loop", result.nodes, "net")
    /\ UNCHANGED <<idx, nodes, edges, created_pci_nodes, vv_links, missing>>

LsblkLoop ==
    /\ pc = "lsblk_loop"
    /\ LET n == lsblk_nodes[idx + 1]
       IN AppendStep("lsblk", n, ContainsEdge("bus:storage", n.id, "disk"), "net")
    /\ UNCHANGED <<parsed, created_pci_nodes, vv_links, found, missing, attempted>>

(***************************************************************************)
(* Network interfaces (ip -br link, ethtool).                              *)
(***************************************************************************)
\* lines of `ip -br link`: "<name> <state> <mac> ...", or a line without a MAC
\* address, which the pattern does not match
IpLines ==
    {[ok |-> TRUE, ifname_raw |-> "eth0", state |-> "UP", mac |-> "52:54:00:12:34:56"],
     [ok |-> TRUE, ifname_raw |-> "eth0@if2", state |-> "UP", mac |-> "52:54:00:AB:CD:EF"],
     [ok |-> FALSE, ifname_raw |-> "tun0", state |-> "UNKNOWN", mac |-> ""]}

\* texts of `ethtool -i <ifname>`, as "<key>: <value>" lines
EthtoolInfoOutputs ==
    {<<>>,
     <<[key |-> "driver", value |-> "e1000e"], [key |-> "bus-info", value |-> "0000:00:1f.6"]>>}

\* texts of `ethtool <ifname>`: the number and the unit of the "Speed:" line
EthtoolSpeedOutputs ==
    {[num |-> "", unit |-> ""],
     [num |-> "10", unit |-> "Gb/s"]}

_parse_ip_link_brief(output) ==
    LET matched == SelectSeq(output, LAMBDA line : line.ok)
    IN [i \in 1..Len(matched) |->
           [ifname |-> SplitFirst(matched[i].ifname_raw, "@"),
            state |-> matched[i].state,
            mac |-> Lower(matched[i].mac)]]

RECURSIVE InfoFrom(_, _)
InfoFrom(lines, info) ==
    IF lines = <<>> THEN info
    ELSE LET line == Head(lines)
         IN IF Lower(line.key) = "driver"
            THEN InfoFrom(Tail(lines), ("driver" :> line.value) @@ info)
            ELSE IF Lower(line.key) = "bus-info"
                 THEN InfoFrom(Tail(lines), ("bus_info" :> line.value) @@ info)
                 ELSE InfoFrom(Tail(lines), info)

\* a parser that reports a driver whatever the text
_parse_ethtool_i_default(output) == InfoFrom(output, [driver |-> "unknown"])

_parse_ethtool_i(output) == InfoFrom(output, NoProps)

\* the speed in Mbps, None without a "Speed:" line in Mb/s or Gb/s
_parse_ethtool_speed(output) ==
    IF output.num = "" THEN None
    ELSE IF output.unit = "Mb/s" THEN ToNat(output.num)
    ELSE IF output.unit = "Gb/s" THEN ToNat(output.num) * 1000
    ELSE None

\* the node of one interface; tool is the answer of _which("ethtool")
NetNode(iface, tool, info_out, speed_out) ==
    LET ifname == iface.ifname
        base == [state |-> iface.state, mac |-> iface.mac]
        speed == _parse_ethtool_speed(speed_out)
        props == IF tool /\ ifname # ""
                 THEN (IF speed # None /\ speed # 0 THEN ("speed_mbps" :> ToString(speed))
                       ELSE NoProps)
                      @@ _parse_ethtool_i(info_out) @@ base
                 ELSE base
    IN Node("net:" \o ifname, "net-interface", ifname, props)

NetSkip ==
    /\ pc = "net"
    /\ CanAnswer("ip", FALSE, found, missing)
    /\ missing' = missing \cup {"ip"}
    /\ pc' = "done"
    /\ UNCHANGED <<idx, nodes, edges, parsed, created_pci_nodes, vv_links, found, attempted>>

NetStage ==
    /\ pc = "net"
    /\ CanAnswer("ip", TRUE, found, missing)
    /\ found' = found \cup {"ip"}
    /\ attempted' = attempted \cup {"ip"}
    /\ \E out \in SeqsUpTo(IpLines, Room) :
        /\ parsed' = [parsed EXCEPT !["net"] = _parse_ip_link_brief(out)]
        /\ pc' = Enter("net_loop", parsed'["net"], "done")
    /\ nodes' = Append(nodes, Node("bus:net", "bus", "Network", NoProps))
    /\ edges' = Append(edges, ContainsEdge(RootNode.id, "bus:net", "contains"))
    /\ UNCHANGED <<idx, created_pci_nodes, vv_links, missing>>

NetLoop ==
    /\ pc = "net_loop"
    /\ \E tool \in BOOLEAN, info_out \in EthtoolInfoOutputs, speed_out \in EthtoolSpeedOutputs :
        /\ CanAnswer("ethtool", tool, found, missing)
        /\ ~tool => info_out = <<>> /\ speed_out.num = ""
        /\ found' = FoundAfter("ethtool", tool, found)
        /\ missing' = MissingAfter("ethtool", tool, missing)
        /\ LET iface == ifaces[idx + 1]
           IN AppendStep("net", NetNode(iface, tool, info_out, speed_out),
                         ContainsEdge("bus:net", "net:" \o iface.ifname, "iface"), "done")
    /\ UNCHANGED <<parsed, created_pci_nodes, vv_links, attempted>>

(***************************************************************************)
(* The run.                                                                *)
(***************************************************************************)
Init ==
    /\ pc = "cpu"
    /\ idx = 0
    /\ nodes = <<RootNode>>
    /\ edges = <<>>
    /\ parsed = [l \in Loops |-> <<>>]
    /\ created_pci_nodes = NoProps
    /\ vv_links = NoProps
    /\ found = {}
    /\ missing = {}
    /\ attempted = {}

Next ==
    \/ CpuSkip \/ CpuStage \/ CpuLoop
    \/ NumaStage \/ NumaLoop
    \/ MemoryStage \/ DimmLoop
    \/ PciSkip \/ PciStage \/ PciLoop
    \/ NvidiaStage \/ NvidiaLoop
    \/ RocmStage \/ RocmLoop
    \/ UsbSkip \/ UsbStage \/ UsbLoop
    \/ StorageStage
    \/ NvmeSkip \/ NvmeStage \/ NvmeLoop
    \/ LsblkSkip \/ LsblkStage \/ LsblkLoop
    \/ NetSkip \/ NetStage \/ NetLoop

Spec == Init /\ [][Next]_vars

(***************************************************************************)
(* Properties of the graph.                                                *)
(***************************************************************************)
NodeIds == {nodes[i].id : i \in DOMAIN nodes}

\* the positions of the edges that point at the node with this id
EdgesInto(id) == {k \in DOMAIN edges : edges[k].kind = "contains" /\ edges[k].target = id}

RECURSIVE ReachFrom(_, _)
\* the ids that contains edges reach from the ids of S in at most n steps
ReachFrom(S, n) ==
    IF n = 0 THEN S
    ELSE ReachFrom(S \cup {edges[k].target : k \in {j \in DOMAIN edges : edges[j].source \in S}},
                   n - 1)

\* the ids below the node with this id
Below(id) ==
    ReachFrom({edges[k].target : k \in {j \in DOMAIN edges : edges[j].source = id}}, Len(nodes))

\* the run has returned a graph
Returned_Graph == pc = "done"

\* C1: every edge's source and every edge's target is the id of a node of the
\* graph, in the graph that is returned and in every graph on the way to it.
C1_ReferentialIntegrity ==
    \A k \in DOMAIN edges : edges[k].source \in NodeIds /\ edges[k].target \in NodeIds

\* a graph was returned that has a NUMA node below its CPU node and devices below
\* a bus node
C1_Witness ==
    /\ Returned_Graph
    /\ \E k \in DOMAIN edges : edges[k].source = "cpu:0"
    /\ \E k \in DOMAIN edges : edges[k].source \notin {"root", "cpu:0"}

\* C2: no two nodes of the graph share an id, whatever the tools print.
C2_UniqueIds ==
    \A i, j \in DOMAIN nodes : nodes[i].id = nodes[j].id => i = j

\* C3: in the returned graph the contains edges form a tree rooted at the
\* single node root: no node is the target of two edges, no node is below
\* itself, and every node is reached from root.
C3_ContainsTree ==
    Returned_Graph =>
        /\ Cardinality({i \in DOMAIN nodes : nodes[i].id = "root"}) = 1
        /\ EdgesInto("root") = {}
        /\ \A id \in NodeIds : Cardinality(EdgesInto(id)) <= 1
        /\ \A id \in NodeIds : id \notin Below(id)
        /\ NodeIds \subseteq ReachFrom({"root"}, Len(nodes))

\* the id of the node the code hangs a node of this kind and id under
StructuralParent(n) ==
    CASE n.kind \in {"cpu", "memory", "bus"} -> "root"
      [] n.kind = "numa-node" -> "cpu:0"
      [] n.kind = "dimm" -> "bus:memory"
      [] n.kind \in {"pci-device", "gpu-device"} -> "bus:pci"
      [] n.kind = "usb-device" -> "bus:usb"
      [] n.kind \in {"nvme-device", "disk-device"} -> "bus:storage"
      [] n.kind = "net-interface" -> "bus:net"
      [] OTHER -> ""

\* C4: at every step each node other than root is the target of exactly one
\* contains edge, appended with the node (the lists grow together), whose source
\* is the node's structural parent; root is the target of no edge.
C4_OneParentEdge ==
    /\ Len(edges) = Len(nodes) - 1
    /\ \A i \in 2..Len(nodes) :
        /\ edges[i - 1].target = nodes[i].id
        /\ edges[i - 1].kind = "contains"
        /\ edges[i - 1].source = StructuralParent(nodes[i])
        /\ Cardinality(EdgesInto(nodes[i].id)) = 1
    /\ EdgesInto("root") = {}

(***************************************************************************)
(* Properties of the stages.                                               *)
(***************************************************************************)
\* the stages that are gated by a tool of their own
StageTools == {"lscpu", "dmidecode", "lspci", "nvidia-smi", "rocm-smi", "lsusb",
               "nvme", "lsblk", "ip"}

\* the stages the code gates by their own tool and nothing else
TopLevelTools == {"lscpu", "dmidecode", "lspci", "lsusb", "nvme", "lsblk", "ip"}

\* the stages after a stage, among those a raising parser can cut off
AfterStage(t) ==
    CASE t = "nvme" -> {"lsblk", "ip"}
      [] t = "lsblk" -> {"ip"}
      [] OTHER -> {}

\* the run has ended: a graph was returned or an exception left the function
Ended == pc \in {"done", "raised"}

\* the stage whose parser raised
RaisedIn == IF "lsblk" \in attempted THEN "lsblk" ELSE "nvme"

\* the run got to the stage of this tool
Reached(t) == pc = "done" \/ (pc = "raised" /\ t \notin AfterStage(RaisedIn))

C6_NeverFails == pc # "raised"

\* C7: the parsers return for every text: at the point where a storage parser
\* is called (the parsers that use a JSON value before they know its type), no
\* text the tool can print makes it raise.
C7_ParsersTotal ==
    /\ pc = "nvme" => \A out \in NvmeOutputs(Room) : ~_parse_nvme_list_json(out).raised
    /\ pc = "lsblk" => \A out \in LsblkOutputs(Room) : ~_parse_lsblk_json(out).raised

\* the tools C8 attributes a node id to
ClaimedSource(id) ==
    CASE id = "cpu:0" \/ StartsWith(id, "numa:") -> {"lscpu"}
      [] id = "bus:memory" \/ StartsWith(id, "dimm:") -> {"dmidecode"}
      [] id = "bus:pci" \/ StartsWith(id, "pci:") -> {"lspci"}
      [] id = "bus:usb" \/ StartsWith(id, "usb:") -> {"lsusb"}
      [] id = "bus:storage" -> {"nvme", "lsblk"}
      [] StartsWith(id, "nvme:") -> {"nvme"}
      [] StartsWith(id, "disk:") -> {"lsblk"}
      [] id = "bus:net" \/ StartsWith(id, "net:") -> {"ip"}
      [] OTHER -> {}

\* the tools whose stage builds the node with this id
Source(id) == IF id \in {"bus:memory", "bus:storage"} THEN {} ELSE ClaimedSource(id)

\* C8 as stated: the graph has a node or an edge to a node only if one of the
\* tools the node is attributed to (dmidecode for the memory nodes, nvme or lsblk
\* for the storage nodes) is not absent.
C8_AbsentToolNoNode ==
    /\ \A i \in DOMAIN nodes :
          ClaimedSource(nodes[i].id) # {} => ~(ClaimedSource(nodes[i].id) \subseteq missing)
    /\ \A k \in DOMAIN edges :
          ClaimedSource(edges[k].target) # {}
              => ~(ClaimedSource(edges[k].target) \subseteq missing)

\* C8 amended: an absent tool's stage is not entered and the graph has no node
\* and no edge of that stage; the bus:memory and bus:storage nodes and their
\* edges from root belong to no tool's stage and are in every returned graph.
C8_AbsentToolNoDevice ==
    /\ \A t \in missing : t \notin attempted
    /\ \A i \in DOMAIN nodes : Source(nodes[i].id) \cap missing = {}
    /\ \A k \in DOMAIN edges : Source(edges[k].target) \cap missing = {}
    /\ Returned_Graph =>
          /\ {"bus:memory", "bus:storage"} \subseteq NodeIds
          /\ {"bus:memory", "bus:storage"} \subseteq {edges[k].target : k \in DOMAIN edges}

\* a graph was returned although dmidecode, nvme or lsblk were absent, and it
\* has the memory and the storage node
C8_Witness ==
    /\ Returned_Graph
    /\ "dmidecode" \in missing
    /\ {"nvme", "lsblk"} \cap missing # {}
    /\ \E i \in DOMAIN nodes : nodes[i].id = "bus:memory"
    /\ \E i \in DOMAIN nodes : nodes[i].id = "bus:storage"

(***************************************************************************)
(* Properties of the order and of the kinds.                               *)
(***************************************************************************)
\* the place of a node in the order of the stages
StageRank(n) ==
    CASE n.id = "root" -> 0
      [] n.kind = "cpu" -> 1
      [] n.kind = "numa-node" -> 2
      [] n.kind = "memory" -> 3
      [] n.kind = "dimm" -> 4
      [] n.id = "bus:pci" -> 5
      [] n.kind \in {"pci-device", "gpu-device"} -> 6
      [] n.id = "bus:usb" -> 7
      [] n.kind = "usb-device" -> 8
      [] n.id = "bus:storage" -> 9
      [] n.kind = "nvme-device" -> 10
      [] n.kind = "disk-device" -> 11
      [] n.id = "bus:net" -> 12
      [] n.kind = "net-interface" -> 13
      [] OTHER -> 14

\* the loops that append nodes, with the rank of their nodes
NodeLoops == {"cpu", "numa", "dimm", "pci", "usb", "nvme", "lsblk", "net"}

LoopRank(loop) ==
    CASE loop = "cpu" -> 1
      [] loop = "numa" -> 2
      [] loop = "dimm" -> 4
      [] loop = "pci" -> 6
      [] loop = "usb" -> 8
      [] loop = "nvme" -> 10
      [] loop = "lsblk" -> 11
      [] loop = "net" -> 13

\* the ids of the records a parser returned, in the parser's order
RecordIds(loop) ==
    [i \in 1..Len(parsed[loop]) |->
        CASE loop = "pci" -> "pci:" \o PciSlot(parsed[loop][i])
          [] loop = "net" -> "net:" \o parsed[loop][i].ifname
          [] OTHER -> parsed[loop][i].id]

\* the ids of the nodes of a stage, in the order of the node list
StageIds(loop) ==
    LET of_stage == SelectSeq(nodes, LAMBDA n : StageRank(n) = LoopRank(loop))
    IN [i \in 1..Len(of_stage) |-> of_stage[i].id]

IsPrefix(s, t) == Len(s) <= Len(t) /\ s = SubSeq(t, 1, Len(s))

\* C9: the node list is in stage order, the nodes of a stage are in the order
\* of the parser's records (all of them once the graph is returned), and the
\* edge list is in the order of the node list.
C9_StageOrder ==
    /\ \A i, j \in DOMAIN nodes : i < j => StageRank(nodes[i]) <= StageRank(nodes[j])
    /\ \A loop \in NodeLoops : IsPrefix(StageIds(loop), RecordIds(loop))
    /\ Returned_Graph => \A loop \in NodeLoops : StageIds(loop) = RecordIds(loop)
    /\ Len(edges) = Len(nodes) - 1
    /\ \A k \in DOMAIN edges : edges[k].target = nodes[k + 1].id

\* a graph was returned with two nodes of one stage and a node of a later stage
C9_Witness ==
    /\ Returned_Graph
    /\ \E loop \in NodeLoops : Len(StageIds(loop)) >= 2 /\ StageIds(loop)[1] # StageIds(loop)[2]
    /\ Len(nodes) >= 6

\* C10: a step changes the kind of a node only from pci-device to gpu-device.
C10_KindOnlyPromoted ==
    [][\A i \in DOMAIN nodes :
          nodes'[i].kind # nodes[i].kind =>
              nodes[i].kind = "pci-device" /\ nodes'[i].kind = "gpu-device"]_vars

\* a graph was returned in which a vendor tool has promoted a node that lspci
\* had built as a pci-device
C10_Witness ==
    /\ Returned_Graph
    /\ \E i \in DOMAIN nodes :
          /\ nodes[i].kind = "gpu-device"
          /\ PciKind(nodes[i].properties["class"]) = "pci-device"

(***************************************************************************)
(* GPU enrichment.                                                         *)
(***************************************************************************)
Enriching == pc \in {"nvidia_loop", "rocm_loop"}

\* the bus id of the vendor-tool record the next enrichment iteration handles
CurrentBusId ==
    IF pc = "nvidia_loop" THEN parsed["nvidia"][idx + 1][1]
    ELSE parsed["rocm"][idx + 1]["bdf"]

\* bus_id names the device at address: by its full form (domain:bus:dev.fn),
\* or by its tail form where one of the two carries no domain
Designates(bus_id, address) ==
    \/ FullMatch(bus_id) # "" /\ address = FullMatch(bus_id)
    \/ TailMatch(bus_id) # "" /\ address = TailMatch(bus_id)
    \/ FullMatch(bus_id) = "" /\ TailMatch(bus_id) # ""
       /\ TailMatch(address) = TailMatch(bus_id)

\* positions of the PCI device nodes bus_id designates
Designated(bus_id) ==
    {i \in DOMAIN nodes : /\ StartsWith(nodes[i].id, "pci:")
                          /\ Designates(bus_id, nodes[i].properties["address"])}

\* C11: when the bus id of a vendor-tool record designates a PCI device of the
\* graph, the enrichment step changes a node created for that device and no
\* other node, promotes it, and adds no node and no edge.
C11_EnrichesDesignatedNode ==
    [][(Enriching /\ Designated(CurrentBusId) # {}) =>
        /\ Len(nodes') = Len(nodes)
        /\ edges' = edges
        /\ \A i \in DOMAIN nodes : nodes'[i] # nodes[i] => i \in Designated(CurrentBusId)
        /\ \E i \in Designated(CurrentBusId) : nodes'[i].kind = "gpu-device"]_vars

InEnrichment == pc \in {"nvidia", "nvidia_loop", "rocm", "rocm_loop"}

\* the product name of the vendor-tool record the next enrichment iteration handles
CurrentName ==
    IF pc = "nvidia_loop" THEN Part(parsed["nvidia"][idx + 1], 2)
    ELSE IF pc = "rocm_loop" THEN parsed["rocm"][idx + 1]["name"]
    ELSE ""

\* C12: a step of the nvidia-smi or rocm-smi pass adds and removes no node and
\* no edge, changes no node id and deletes no property key; a kind changes to
\* gpu-device only and a label to the record's non-empty product name only.
C12_EnrichmentFrame ==
    [][InEnrichment =>
        /\ Len(nodes') = Len(nodes)
        /\ edges' = edges
        /\ \A i \in DOMAIN nodes :
            /\ nodes'[i].id = nodes[i].id
            /\ DOMAIN nodes[i].properties \subseteq DOMAIN nodes'[i].properties
            /\ nodes'[i].kind # nodes[i].kind => nodes'[i].kind = "gpu-device"
            /\ nodes'[i].label # nodes[i].label =>
                CurrentName # "" /\ nodes'[i].label = CurrentName]_vars

\* an enrichment pass has merged a driver into a node that keeps the properties
\* of its PCI record
C12_Witness ==
    /\ pc = "usb"
    /\ \E i \in DOMAIN nodes :
        /\ {"driver", "class", "address", "vendor_id"} \subseteq DOMAIN nodes[i].properties
        /\ nodes[i].label = "NVIDIA GeForce RTX 3090"

\* the properties both enrichment sources report
EnrichKeys == {"driver", "vram_mb", "temperature_c", "power_w", "power_cap_w",
               "utilization_gpu_pct", "pcie_width", "pcie_speed"}

\* the non-empty attributes of the vendor-tool record the next enrichment
\* iteration handles
CurrentAttributes ==
    IF pc = "nvidia_loop"
    THEN LET parts == parsed["nvidia"][idx + 1]
             column == [driver |-> 3, vram_mb |-> 4, temperature_c |-> 5, power_w |-> 6,
                        power_cap_w |-> 7, utilization_gpu_pct |-> 8]
         IN [k \in {c \in DOMAIN column : Part(parts, column[c]) # ""} |->
                Part(parts, column[k])]
    ELSE LET dev == parsed["rocm"][idx + 1]
         IN [k \in {c \in EnrichKeys \cap DOMAIN dev : dev[c] # ""} |-> dev[k]]

\* the position of the node the next enrichment iteration matches, 0 for none
CurrentMatch ==
    IF pc = "nvidia_loop"
    THEN LET parts == parsed["nvidia"][idx + 1]
         IN IF Len(parts) < 2 THEN 0 ELSE NvidiaLookup(created_pci_nodes, parts[1])
    ELSE RocmLookup(created_pci_nodes, parsed["rocm"][idx + 1]["bdf"])

\* C13: after an enrichment iteration that matched a node, the node's
\* properties hold every non-empty attribute of the vendor-tool record.
C13_MergesEveryAttribute ==
    [][(Enriching /\ CurrentMatch # 0) =>
        \A k \in DOMAIN CurrentAttributes :
            /\ k \in DOMAIN nodes'[CurrentMatch].properties
            /\ nodes'[CurrentMatch].properties[k] = CurrentAttributes[k]]_vars

(***************************************************************************)
(* Parsers.                                                                *)
(***************************************************************************)
\* the answers of _which("dmidecode") and the texts of the processor query a
\* host can give
DmiEnvironments ==
    {env \in [dmi : BOOLEAN, proc : DmiProcOutputs] : ~env.dmi => env.proc = <<>>}

\* C14: the records the CPU stage is about to parse depend on the lscpu text
\* only: on two hosts that differ in dmidecode's availability and output the
\* parser yields the same records from the same text.
C14_LscpuParserPure ==
    pc = "cpu" =>
        \A out \in LscpuOutputs : \A e1, e2 \in DmiEnvironments :
            _parse_lscpu_json(out, e1.dmi, e1.proc) = _parse_lscpu_json(out, e2.dmi, e2.proc)

Parsers == {"_parse_lspci_mm", "_parse_lspci_vmm", "_parse_lspci_vv_links",
            "_parse_nvme_list_json", "_parse_lsblk_json", "_parse_ip_link_brief",
            "_parse_ethtool_i", "_parse_ethtool_speed", "_parse_lsusb",
            "_parse_lscpu_json", "_parse_dmidecode_processor",
            "_parse_dmidecode_memory", "_parse_rocm_smi_json"}

\* the parsers annotated to return a List or a Dict; _parse_ethtool_speed
\* returns Optional[int], _parse_dmidecode_processor a Tuple of two Optional[str]
CollectionParsers == Parsers \ {"_parse_ethtool_speed", "_parse_dmidecode_processor"}

EmptyJson == [form |-> "empty", top |-> "", items |-> <<>>]

\* the values a parser can return for the empty text
EmptyResults(p) ==
    CASE p = "_parse_lspci_mm" -> {_parse_lspci_mm(<<>>)}
      [] p = "_parse_lspci_vmm" -> {_parse_lspci_vmm(<<>>)}
      [] p = "_parse_lspci_vv_links" -> {_parse_lspci_vv_links(<<>>)}
      [] p = "_parse_nvme_list_json" -> {_parse_nvme_list_json(EmptyJson).nodes}
      [] p = "_parse_lsblk_json" -> {_parse_lsblk_json(EmptyJson).nodes}
      [] p = "_parse_ip_link_brief" -> {_parse_ip_link_brief(<<>>)}
      [] p = "_parse_ethtool_i" -> {_parse_ethtool_i(<<>>)}
      [] p = "_parse_ethtool_speed" -> {_parse_ethtool_speed([num |-> "", unit |-> ""])}
      [] p = "_parse_lsusb" -> {_parse_lsusb(<<>>)}
      [] p = "_parse_lscpu_json" ->
            {_parse_lscpu_json([form |-> "empty", has_lscpu |-> FALSE, walkable |-> FALSE],
                               e.dmi, e.proc) : e \in DmiEnvironments}
      [] p = "_parse_dmidecode_processor" -> {_parse_dmidecode_processor(<<>>)}
      [] p = "_parse_dmidecode_memory" -> {_parse_dmidecode_memory(<<>>)}
      [] p = "_parse_rocm_smi_json" ->
            {_parse_rocm_smi_json([form |-> "empty", top |-> "", cards |-> <<>>])}

\* no parser raises on the empty text
EmptyNeverRaises ==
    /\ ~_parse_nvme_list_json(EmptyJson).raised
    /\ ~_parse_lsblk_json(EmptyJson).raised

\* C15 as stated: when a run starts, given the empty text every parser returns an empty list or
\* an empty map and does not raise.
C15_EmptyGivesEmptyCollection ==
    pc = "cpu" =>
        /\ EmptyNeverRaises
        /\ \A p \in Parsers :
            p \in CollectionParsers /\ \A r \in EmptyResults(p) : r = <<>>

\* C15: when a run starts, given the empty text no parser raises; the parsers that return a list
\* or a map return it empty, _parse_ethtool_speed returns None and
\* _parse_dmidecode_processor returns (None, None).
C15_EmptyGivesEmptyOrNone ==
    pc = "cpu" =>
        /\ EmptyNeverRaises
        /\ \A p \in CollectionParsers : \A r \in EmptyResults(p) : r = <<>>
        /\ \A r \in EmptyResults("_parse_ethtool_speed") : r = None
        /\ \A r \in EmptyResults("_parse_dmidecode_processor") : r = <<"", "">>

\* a graph was returned after tools that were present printed nothing: the
\* bus nodes are there and no device node is
C15_Witness ==
    /\ Returned_Graph
    /\ {"lscpu", "lspci", "lsusb", "nvme", "lsblk", "ip"} \subseteq attempted
    /\ \A l \in Loops : parsed[l] = <<>>
    /\ \A i \in DOMAIN nodes : nodes[i].kind \in {"system", "memory", "bus"}

(***************************************************************************)
(* Memory.                                                                 *)
(***************************************************************************)
RECURSIVE SizeSum(_)
\* the sum, in tenths of a GB, of the sizes of the DIMM nodes that are numbers
SizeSum(ns) ==
    IF ns = <<>> THEN 0
    ELSE LET t == FloatTenths(Head(ns).properties["size_gb"])
         IN (IF t = None THEN 0 ELSE t) + SizeSum(Tail(ns))

\* every DIMM node's size is a number of GB
SizesNumeric(ns) ==
    \A i \in DOMAIN ns : FloatTenths(ns[i].properties["size_gb"]) # None

\* MemTotal of /proc/meminfo in GB with one decimal, "" without a value
MeminfoGb(meminfo) ==
    LET total_kb == _parse_meminfo_total_kb(meminfo)
    IN IF total_kb = None \/ total_kb = 0 THEN ""
       ELSE Fmt1(RoundDiv(10 * total_kb, 1024 * 1024))

\* the total_gb the memory stage is about to give bus:memory for these texts
TotalOf(out, meminfo) ==
    MemRoot(TotalGb(_parse_dmidecode_memory(out), meminfo)).properties["total_gb"]

\* C16 as stated: for every dmidecode and /proc/meminfo text the memory stage
\* may read, total_gb is the sum of the DIMM sizes when at least one DIMM node
\* was parsed, and the /proc/meminfo total otherwise.
C16_TotalFromAnyDimm ==
    pc = "memory" =>
        \A out \in SeqsUpTo(DimmStanzas, Room), meminfo \in MeminfoOutputs :
            LET d == _parse_dmidecode_memory(out)
            IN TotalOf(out, meminfo) = IF d # <<>> THEN Fmt1(SizeSum(d))
                                       ELSE MeminfoGb(meminfo)

\* C16: for every dmidecode and /proc/meminfo text the memory stage may read,
\* total_gb is the sum of the DIMM sizes when at least one DIMM node was
\* parsed and every DIMM size is a number, and the /proc/meminfo total (empty
\* without one) otherwise.
C16_TotalFromNumericDimms ==
    pc = "memory" =>
        \A out \in SeqsUpTo(DimmStanzas, Room), meminfo \in MeminfoOutputs :
            LET d == _parse_dmidecode_memory(out)
            IN TotalOf(out, meminfo) = IF d # <<>> /\ SizesNumeric(d) THEN Fmt1(SizeSum(d))
                                       ELSE MeminfoGb(meminfo)

\* the memory stage has fallen back to /proc/meminfo although a DIMM with a
\* size was parsed, because another DIMM's size is not a number
C16_Witness ==
    /\ pc = "dimm_loop"
    /\ ~SizesNumeric(dimm_nodes)
    /\ SizeSum(dimm_nodes) = 80
    /\ nodes[Len(nodes)].id = "bus:memory"
    /\ nodes[Len(nodes)].properties["total_gb"] = "16.0"

SpeedKeys == <<"Configured Memory Speed", "Configured Clock Speed", "Speed", "Maximum Speed">>

\* the first speed value of a stanza, in the order of preference, that is
\* present and is not a placeholder; "" without one
PreferredSpeed(dev) ==
    LET hits == SelectSeq(SpeedKeys,
                          LAMBDA k : /\ Get(dev, k, "") # ""
                                     /\ Lower(Strip(Get(dev, k, ""))) \notin SpeedPlaceholders)
    IN IF hits = <<>> THEN "" ELSE dev[hits[1]]

\* the "Memory Device" stanzas of a text that describe an installed module
Installed(out) ==
    SelectSeq(out, LAMBDA st : st.kind = "Memory Device" /\ ~DimmAbsent(st.fields))

\* C17: for every dmidecode text the memory stage may read, each DIMM node's
\* speed is the first value of its stanza, in the order of preference, that is
\* present and is not a placeholder; the key is absent only without such a
\* value and never holds a placeholder.
C17_SpeedFirstUsable ==
    pc = "memory" =>
        \A out \in SeqsUpTo(DimmStanzas, Room) :
            LET d == _parse_dmidecode_memory(out)
                devs == Installed(out)
            IN /\ Len(d) = Len(devs)
               /\ \A i \in DOMAIN d :
                    /\ Get(d[i].properties, "speed", "") = PreferredSpeed(devs[i].fields)
                    /\ Lower(Get(d[i].properties, "speed", "")) \notin SpeedPlaceholders

(***************************************************************************)
(* PCI classification.                                                     *)
(***************************************************************************)
\* the class text, lower-cased, contains one of the GPU class words
IsGpuClass(cls) ==
    \/ Contains(Lower(cls), "vga")
    \/ Contains(Lower(cls), "3d controller")
    \/ Contains(Lower(cls), "display controller")
    \/ Contains(Lower(cls), "processing accelerators")
    \/ Contains(Lower(cls), "accelerator")
    \/ Contains(Lower(cls), "co-processor")

\* C18: the node an iteration of the PCI loop appends has kind gpu-device if
\* its class text contains a GPU class word and pci-device otherwise; the
\* class "VGA compatible controller" gives gpu-device and "Host bridge"
\* pci-device.
C18_KindFromClass ==
    [][pc = "pci_loop" =>
        /\ LET n == nodes'[Len(nodes')]
           IN n.kind = IF IsGpuClass(n.properties["class"]) THEN "gpu-device"
                       ELSE "pci-device"
        /\ PciKind("VGA compatible controller") = "gpu-device"
        /\ PciKind("Host bridge") = "pci-device"]_vars

\* the PCI loop has built a gpu-device from a VGA class and a pci-device from
\* another class, and no vendor tool has run yet
C18_Witness ==
    /\ pc = "nvidia"
    /\ \E i, j \in DOMAIN nodes :
        /\ nodes[i].kind = "gpu-device"
        /\ StartsWith(nodes[i].properties["class"], "VGA")
        /\ nodes[j].kind = "pci-device"
        /\ StartsWith(nodes[j].id, "pci:")

(***************************************************************************)
(* Storage.                                                                *)
(***************************************************************************)
\* the device name in the id of a disk-device node
DiskName(n) == SubSeq(n.id, Len("disk:") + 1, Len(n.id))

\* the names of the entries of a listing that are disks and not NVMe namespaces
GenericDisks(items) ==
    LET kept == SelectSeq(items, LAMBDA d : d.type = "disk" /\ ~StartsWith(d.name, "nvme"))
    IN [i \in 1..Len(kept) |-> kept[i].name]

\* C19: no disk-device node of the graph is named nvme..., so none stands for a
\* device that an nvme-device node stands for; and for every listing the lsblk
\* stage may read, the parser's nodes are those of the entries of type disk
\* whose name does not begin with nvme.
C19_NoNvmeAmongDisks ==
    /\ \A i \in DOMAIN nodes :
        nodes[i].kind = "disk-device" =>
            /\ ~StartsWith(DiskName(nodes[i]), "nvme")
            /\ \A j \in DOMAIN nodes :
                nodes[j].kind = "nvme-device" =>
                    nodes[j].id \notin {"nvme:" \o DiskName(nodes[i]),
                                        "nvme:/dev/" \o DiskName(nodes[i])}
    /\ pc = "lsblk" =>
        \A out \in LsblkOutputs(Room) :
            LET r == _parse_lsblk_json(out)
            IN ~r.raised =>
                /\ \A i \in DOMAIN r.nodes : r.nodes[i].kind = "disk-device"
                /\ [i \in DOMAIN r.nodes |-> DiskName(r.nodes[i])]
                   = (IF out.form = "json" /\ out.top = "dict" THEN GenericDisks(out.items)
                      ELSE <<>>)

\* a graph was returned that holds an NVMe device from `nvme list` and a
\* generic disk from `lsblk`
C19_Witness ==
    /\ Returned_Graph
    /\ \E i, j \in DOMAIN nodes :
        /\ nodes[i].id = "nvme:/dev/nvme0n1"
        /\ nodes[j].id = "disk:sda"

(***************************************************************************)
(* The demo graph (generate_demo_graph, `scan --demo`).                    *)
(*                                                                         *)
(* A second specification: the host is any set of tools on the search      *)
(* path, `scan --demo` puts the graph generate_demo_graph returns into     *)
(* nodes and edges, and the holder of a returned graph may edit it before  *)
(* the next call.                                                          *)
(***************************************************************************)
\* calls of generate_demo_graph in one behaviour
MaxCalls == 2

DemoNodes ==
    <<Node("root", "system", "Demo System", [os |-> "Linux"]),
      Node("cpu:0", "cpu", "Intel(R) Xeon(R) CPU",
           [sockets |-> "1", cores_per_socket |-> "8", threads_per_core |-> "2"]),
      Node("bus:memory", "memory", "Memory", [total_gb |-> "32.0"]),
      Node("dimm:A1", "dimm", "DIMM A1",
           [slot |-> "A1", size_gb |-> "16.0", type |-> "DDR4", speed |-> "2666 MT/s"]),
      Node("dimm:B1", "dimm", "DIMM B1",
           [slot |-> "B1", size_gb |-> "16.0", type |-> "DDR4", speed |-> "2666 MT/s"]),
      Node("bus:pci", "bus", "PCI Bus", NoProps),
      Node("pci:00:00.0", "pci-device", "Intel Corporation 440FX - 82441FX PMC [Natoma]",
           [class |-> "Host bridge", address |-> "00:00.0"]),
      Node("pci:00:01.0", "pci-device",
           "Intel Corporation 82371SB PIIX3 ISA [Natoma/Triton II]",
           [class |-> "ISA bridge", address |-> "00:01.0"]),
      Node("bus:usb", "bus", "USB Bus", NoProps),
      Node("usb:001-002", "usb-device", "Intel Corp. Integrated Hub",
           [bus |-> "001", device |-> "002", vendor_id |-> "8087", product_id |-> "0024"])>>

DemoEdges ==
    <<ContainsEdge("root", "cpu:0", "contains"),
      ContainsEdge("root", "bus:memory", "contains"),
      ContainsEdge("bus:memory", "dimm:A1", "dimm"),
      ContainsEdge("bus:memory", "dimm:B1", "dimm"),
      ContainsEdge("root", "bus:pci", "contains"),
      ContainsEdge("bus:pci", "pci:00:00.0", "device"),
      ContainsEdge("bus:pci", "pci:00:01.0", "device"),
      ContainsEdge("root", "bus:usb", "contains"),
      ContainsEdge("bus:usb", "usb:001-002", "device")>>

\* a generator that hands out the lists of its earlier call once more
generate_demo_graph_shared ==
    IF pc = "demo_edited" THEN [nodes |-> nodes, edges |-> edges]
    ELSE [nodes |-> DemoNodes, edges |-> DemoEdges]

\* the lists are built anew by every call
generate_demo_graph == [nodes |-> DemoNodes, edges |-> DemoEdges]

DemoInit ==
    /\ pc = "scan"
    /\ idx = 0
    /\ nodes = <<>>
    /\ edges = <<>>
    /\ parsed = [l \in Loops |-> <<>>]
    /\ created_pci_nodes = NoProps
    /\ vv_links = NoProps
    /\ found \in SUBSET Tools
    /\ missing = Tools \ found
    /\ attempted = {}

\* `scan --demo`: idx counts the calls
ScanDemo ==
    /\ pc \in {"scan", "demo_edited"}
    /\ idx < MaxCalls
    /\ idx' = idx + 1
    /\ nodes' = generate_demo_graph.nodes
    /\ edges' = generate_demo_graph.edges
    /\ pc' = "demo_done"
    /\ UNCHANGED <<parsed, created_pci_nodes, vv_links, found, missing, attempted>>

\* the holder of the returned graph removes a node from its list
DemoEdit ==
    /\ pc = "demo_done"
    /\ \E i \in DOMAIN nodes :
        nodes' = SubSeq(nodes, 1, i - 1) \o SubSeq(nodes, i + 1, Len(nodes))
    /\ pc' = "demo_edited"
    /\ UNCHANGED <<idx, edges, parsed, created_pci_nodes, vv_links, found, missing,
                   attempted>>

DemoNext == ScanDemo \/ DemoEdit

DemoSpec == DemoInit /\ [][DemoNext]_vars

DemoIds == <<"root", "cpu:0", "bus:memory", "dimm:A1", "dimm:B1", "bus:pci",
             "pci:00:00.0", "pci:00:01.0", "bus:usb", "usb:001-002">>

DemoParents == <<"root", "root", "bus:memory", "bus:memory", "root", "bus:pci",
                 "bus:pci", "root", "bus:usb">>

\* C20: on every host and after every earlier call and edit, the graph
\* generate_demo_graph returns is the same ten nodes and nine edges; its node
\* ids are unique, every edge joins two of its nodes, and its edges are a tree
\* rooted at root.
C20_DemoGraphFixed ==
    pc = "demo_done" =>
        /\ Len(nodes) = 10
        /\ Len(edges) = 9
        /\ [i \in DOMAIN nodes |-> nodes[i].id] = DemoIds
        /\ [k \in DOMAIN edges |-> edges[k].source] = DemoParents
        /\ \A k \in DOMAIN edges : edges[k].target = DemoIds[k + 1]
        /\ \A i, j \in DOMAIN nodes : nodes[i].id = nodes[j].id => i = j
        /\ \A k \in DOMAIN edges : {edges[k].source, edges[k].target} \subseteq NodeIds
        /\ EdgesInto("root") = {}
        /\ \A id \in NodeIds \ {"root"} : Cardinality(EdgesInto(id)) = 1
        /\ NodeIds \subseteq ReachFrom({"root"}, Len(nodes))

\* the demo graph was generated a second time, after the first graph was
\* edited, on a host without any tool
C20_Witness ==
    /\ pc = "demo_done"
    /\ idx = 2
    /\ found = {}
    /\ Len(nodes) = 10

(***************************************************************************)
(* Edges.                                                                  *)
(***************************************************************************)
\* the edge is a containment edge whose id is derived from its endpoints
DerivedEdge(e) ==
    /\ e.kind = "contains"
    /\ e.id = "e:" \o e.source \o "->" \o e.target

\* C21: every edge the assembler has appended, and every edge of the graph the
\* demo generator returns, has kind contains and the id "e:" + source + "->" +
\* target.
C21_EdgesContainById ==
    /\ \A k \in DOMAIN edges : DerivedEdge(edges[k])
    /\ \A k \in DOMAIN generate_demo_graph.edges : DerivedEdge(generate_demo_graph.edges[k])

\* a graph was returned with edges from root, from the memory summary and
\* from the network bus
C21_Witness ==
    /\ Returned_Graph
    /\ \E i, j, k \in DOMAIN edges :
        /\ edges[i].label = "contains"
        /\ edges[j].label = "dimm"
        /\ edges[k].label = "iface"

(***************************************************************************)
(* PCIe link attachment.                                                   *)
(***************************************************************************)
\* the link properties `lspci -vv` reported under the address of the device in
\* this slot: under the slot as listed, or under its bus:dev.fn form for a
\* device of domain 0000, which `lspci -vv` prints without the domain
LinkUnder(slot) ==
    IF slot \in DOMAIN vv_links THEN vv_links[slot]
    ELSE IF /\ TailMatch(slot) # ""
            /\ slot = "0000:" \o TailMatch(slot)
            /\ TailMatch(slot) \in DOMAIN vv_links
         THEN vv_links[TailMatch(slot)]
         ELSE NoProps

\* C22: every PCI device node of the graph carries the pcie_speed and
\* pcie_width that `lspci -vv` reported in a LnkSta line under the device's
\* address.
C22_LinkAttached ==
    \A i \in DOMAIN nodes :
        StartsWith(nodes[i].id, "pci:") =>
            LET link == LinkUnder(nodes[i].properties["address"])
            IN \A k \in DOMAIN link :
                /\ k \in DOMAIN nodes[i].properties
                /\ nodes[i].properties[k] = link[k]

(***************************************************************************)
(* Immutability of appended nodes.                                         *)
(***************************************************************************)
\* the positions of the nodes the PCI device stage of this run has created
PciCreated == {created_pci_nodes[k] : k \in DOMAIN created_pci_nodes}

\* the node belongs to the USB, storage or network stage
LaterStageNode(n) ==
    \/ n.id \in {"bus:usb", "bus:storage", "bus:net"}
    \/ \E prefix \in {"usb:", "nvme:", "disk:", "net:"} : StartsWith(n.id, prefix)

\* C23: no step removes a node, and a step changes an appended node only when
\* it is an iteration of the nvidia-smi or rocm-smi loop and the node is a PCI
\* device node that the PCI stage of this run created; until both passes have
\* finished the graph holds no USB, storage or network node.
C23_OnlyEnrichmentMutates ==
    [][/\ Len(nodes') >= Len(nodes)
       /\ \A i \in DOMAIN nodes :
            nodes'[i] # nodes[i] =>
                /\ Enriching
                /\ i \in PciCreated
                /\ StartsWith(nodes[i].id, "pci:")
                /\ nodes[i].kind \in {"pci-device", "gpu-device"}
       /\ (InEnrichment \/ Enriching) => \A i \in DOMAIN nodes : ~LaterStageNode(nodes[i])]_vars

\* a graph was returned in which a vendor tool has enriched a PCI node and a
\* USB device was appended after it
C23_Witness ==
    /\ Returned_Graph
    /\ \E i, j \in DOMAIN nodes :
        /\ i < j
        /\ StartsWith(nodes[i].id, "pci:")
        /\ "driver" \in DOMAIN nodes[i].properties
        /\ nodes[j].kind = "usb-device"

====
